---- MODULE Spec2Model ----
(***************************************************************************)
(* Commerce-Flow: the order saga orchestrator OrderSaga.processOrder       *)
(* (src/load-test-scenarios.js:1115-1156) driving four collaborators       *)
(* through a SagaTransaction.  Every await of processOrder is one step of  *)
(* a run; several runs interleave on the shared collaborators.             *)
(***************************************************************************)
EXTENDS Integers, Sequences, FiniteSets, TLC

\* ---------------------------------------------------------------- bounds
NumRuns == 2

Runs == 1..NumRuns
Ids  == 1..NumRuns
NoId == 0

\* ------------------------------------------------------------- variables
VARIABLES
    pc,            \* position of each processOrder call
    saga,          \* the SagaTransaction of each call: status and compensation stack
    resv,          \* const inventoryReservation (its id; NoId before step 1)
    pay,           \* const payment (its id)
    ord,           \* const order (its id)
    error,         \* the exception caught by the catch clause
    result,        \* what processOrder resolved or rejected with
    log,           \* the collaborator calls each run made, in order
    inflight,      \* number of collaborator calls of each run not yet returned
    reservations,  \* inventoryService: state of each reservation id
    payments,      \* paymentService: state of each payment id
    orders         \* orderRepository: state of each order id

sagaVars == <<pc, saga, resv, pay, ord, error, result, log, inflight,
              reservations, payments, orders>>

\* the storefront (src/AppContext.tsx, src/Cart.tsx)
VARIABLES
    state,         \* AppState: user, cart, isAuthenticated, loading, error
    clock,         \* the last value Date.now() returned
    event,         \* the action dispatched, or the button clicked, last
    dispatched,    \* number of actions and clicks handled so far
    view           \* what the cart page rendered last: subtotal, tax, shipping, total

appVars == <<state, clock, event, dispatched, view>>

\* the user service (src/user-service-template.ts) and its database
VARIABLES
    users,         \* table users: the committed rows
    profiles,      \* table user_profiles: the committed rows
    call,          \* each call of the service: position, transaction, outcome
    bus            \* the events published on the event bus, in order

userVars == <<users, profiles, call, bus>>

\* the event store (src/load-test-scenarios.js, EventStore)
VARIABLES
    streams,       \* table streams: the committed version of each stream
    stored,        \* table events: the committed rows
    appending,     \* each call of appendEvents: position, transaction, outcome
    published,     \* the events published on the message bus, in order
    build          \* what the build made of the assignment to const currentVersion

storeVars == <<streams, stored, appending, published, build>>

\* a part of the system that is not running in the specification at hand
Parked == "parked"
SagaParked ==
    /\ pc = Parked /\ saga = Parked /\ resv = Parked /\ pay = Parked /\ ord = Parked
    /\ error = Parked /\ result = Parked /\ log = Parked /\ inflight = Parked
    /\ reservations = Parked /\ payments = Parked /\ orders = Parked
AppParked ==
    /\ state = Parked /\ clock = Parked /\ event = Parked /\ dispatched = Parked
    /\ view = Parked
UserParked == users = Parked /\ profiles = Parked /\ call = Parked /\ bus = Parked
StoreParked ==
    /\ streams = Parked /\ stored = Parked /\ appending = Parked /\ published = Parked
    /\ build = Parked
\* what a step of the saga, the storefront, the user service and the event
\* store leaves alone
outsideSaga == <<appVars, userVars, storeVars>>
outsideApp == <<sagaVars, userVars, storeVars>>
outsideUser == <<sagaVars, appVars, storeVars>>
outsideStore == <<sagaVars, appVars, userVars>>

\* -------------------------------------------------------------- helpers
RECURSIVE Reverse(_)
Reverse(s) == IF s = <<>> THEN <<>> ELSE Append(Reverse(Tail(s)), Head(s))

IsPrefix(s, t) == Len(s) <= Len(t) /\ SubSeq(t, 1, Len(s)) = s

\* the id a collaborator hands out for the record it creates: fresh for every
\* call; a run asks each collaborator for at most one record, so the id
\* handed to run r is the r-th one
NewId(table, r) == CHOOSE i \in Ids : i = r /\ table[i] = "none"

\* one collaborator call as seen from the run
Call(op, a1, a2, ok, res) == [op |-> op, a1 |-> a1, a2 |-> a2, ok |-> ok, res |-> res]

\* --------------------------------------------- SagaTransaction (not in src)
NewSaga == [status |-> "in-progress", stack |-> <<>>, failure |-> "none"]

\* execute(forward, compensate): on success of forward remember compensate
\* together with forward's result; on failure remember nothing and rethrow
SagaExecute(s, ok, compensation) ==
    IF ok THEN [s EXCEPT !.stack = Append(@, compensation)]
          ELSE s

\* execute(forward, compensate): the error of a failed forward action is kept
\* as the failure that triggered the rollback, and rethrown
SagaFailure(s, ok, err) == IF ok THEN s ELSE [s EXCEPT !.failure = err]

SagaCommit(s) == [s EXCEPT !.status = "committed"]

\* rollback(): the compensation to run next is the most recent one
SagaTop(s) == s.stack[Len(s.stack)]
SagaPop(s) == [s EXCEPT !.stack = SubSeq(@, 1, Len(@) - 1)]
SagaRolledBack(s) == [s EXCEPT !.status = "rolled-back"]
SagaRollbackFailed(s) == [s EXCEPT !.status = "rollback-failed"]

\* rollback(): what it throws when the compensation on top of the stack
\* failed: a CompensationError with the triggering failure and the failed
\* compensation
SagaThrown(s) ==
    [kind |-> "threw", error |-> "CompensationError", order |-> NoId,
     original |-> s.failure, compensation |-> SagaTop(s).comp]

\* ------------------------------------------------------------------ Init
SagaInit ==
    /\ pc = [r \in Runs |-> "pending"]
    /\ saga = [r \in Runs |-> NewSaga]
    /\ resv = [r \in Runs |-> NoId]
    /\ pay = [r \in Runs |-> NoId]
    /\ ord = [r \in Runs |-> NoId]
    /\ error = [r \in Runs |-> "none"]
    /\ result = [r \in Runs |-> [kind |-> "pending", error |-> "none", order |-> NoId,
                                      original |-> "none", compensation |-> "none"]]
    /\ log = [r \in Runs |-> <<>>]
    /\ inflight = [r \in Runs |-> 0]
    /\ reservations = [i \in Ids |-> "none"]
    /\ payments = [i \in Ids |-> "none"]
    /\ orders = [i \in Ids |-> "none"]
    /\ AppParked /\ UserParked /\ StoreParked

\* --------------------------------------------------------- processOrder
\* const saga = new SagaTransaction(); try {
Submit(r) ==
    /\ pc[r] = "pending"
    /\ pc' = [pc EXCEPT ![r] = "reserve"]
    /\ saga' = [saga EXCEPT ![r] = NewSaga]
    /\ UNCHANGED <<resv, pay, ord, error, result, log, inflight, reservations, payments, orders>>
    /\ UNCHANGED outsideSaga

\* processOrder (or the rollback it awaits) invokes the collaborator call of
\* its current position; the call stays in flight until it returns or throws
CallSite(r) ==
    \/ pc[r] \in {"reserve", "charge", "create", "notify"}
    \/ pc[r] = "rollback" /\ saga[r].stack # <<>>

\* a plausible slip: a call is made without awaiting the one before it
AwaitedNot(r) == inflight[r] <= 1
\* await: the run does not go on before the call it made has settled
Awaited(r) == inflight[r] = 0

Begin(r) ==
    /\ CallSite(r)
    /\ Awaited(r)
    /\ inflight' = [inflight EXCEPT ![r] = @ + 1]
    /\ UNCHANGED <<pc, saga, resv, pay, ord, error, result, log, reservations, payments, orders>>
    /\ UNCHANGED outsideSaga

\* number of calls of op the run has made so far
Count(r, op) == Len(SelectSeq(log[r], LAMBDA c : c.op = op))

\* the compensation closures handed to saga.execute, applied to the result
\* of the forward action
ReserveCompensationNone(r, id) == [comp |-> "noop", arg |-> NoId]
ReserveCompensationOtherId(r, id) ==
    [comp |-> "cancelReservation", arg |-> CHOOSE i \in Ids : i # id]
\* (reservation) => this.inventoryService.cancelReservation(reservation.id)
ReserveCompensation(r, id) == [comp |-> "cancelReservation", arg |-> id]

ChargeCompensationOtherId(r, id) == [comp |-> "refund", arg |-> CHOOSE i \in Ids : i # id]
ChargeCompensationNone(r, id) == [comp |-> "noop", arg |-> NoId]
\* (payment) => this.paymentService.refund(payment.id)
ChargeCompensation(r, id) == [comp |-> "refund", arg |-> id]

CreateCompensationRefund(r, id) == [comp |-> "refund", arg |-> pay[r]]
CreateCompensationNone(r, id) == [comp |-> "noop", arg |-> NoId]
\* (order) => this.orderRepository.cancel(order.id)
CreateCompensation(r, id) == [comp |-> "cancel", arg |-> id]

\* () => {} // No compensation needed for notifications
NotifyCompensation(r, id) == [comp |-> "noop", arg |-> NoId]

\* where processOrder continues after each awaited saga.execute: the next
\* statement of the try block, or the catch clause when it threw
AfterReserveSwallow(r, ok) == "charge"
AfterReserve(r, ok) == IF ok THEN "charge" ELSE "rollback"

AfterChargeRetry(r, ok) ==
    IF ok THEN "create" ELSE IF Count(r, "charge") = 0 THEN "charge" ELSE "rollback"
AfterCharge(r, ok) == IF ok THEN "create" ELSE "rollback"

AfterCreateRetry(r, ok) ==
    IF ok THEN "notify" ELSE IF Count(r, "create") = 0 THEN "create" ELSE "rollback"
AfterCreate(r, ok) == IF ok THEN "notify" ELSE "rollback"

AfterNotifySwallow(r, ok) == "commit"
AfterNotify(r, ok) == IF ok THEN "commit" ELSE "rollback"

\* Step 1: saga.execute(() => inventoryService.reserve(orderRequest.items), ...)
Reserve(r) ==
    /\ pc[r] = "reserve"
    /\ inflight[r] >= 1
    /\ inflight' = [inflight EXCEPT ![r] = @ - 1]
    /\ \E ok \in BOOLEAN :
         LET id == IF ok THEN NewId(reservations, r) ELSE NoId IN
         /\ log' = [log EXCEPT ![r] = Append(@, Call("reserve", NoId, NoId, ok, id))]
         /\ saga' = [saga EXCEPT ![r] = SagaFailure(SagaExecute(@, ok, ReserveCompensation(r, id)), ok, "OutOfStock")]
         /\ pc' = [pc EXCEPT ![r] = AfterReserve(r, ok)]
         /\ IF ok
              THEN /\ reservations' = [reservations EXCEPT ![id] = "active"]
                   /\ resv' = [resv EXCEPT ![r] = id]
                   /\ UNCHANGED error
              ELSE /\ error' = [error EXCEPT ![r] = "OutOfStock"]
                   /\ UNCHANGED <<reservations, resv>>
    /\ UNCHANGED <<pay, ord, result, payments, orders>>
    /\ UNCHANGED outsideSaga

\* Step 2: saga.execute(() => paymentService.charge(orderRequest.payment), ...)
\* charge is handed orderRequest.payment alone: the call carries no
\* reservation id (a1 = NoId)
Charge(r) ==
    /\ pc[r] = "charge"
    /\ inflight[r] >= 1
    /\ inflight' = [inflight EXCEPT ![r] = @ - 1]
    /\ \E ok \in BOOLEAN :
         LET id == IF ok THEN NewId(payments, r) ELSE NoId IN
         /\ log' = [log EXCEPT ![r] = Append(@, Call("charge", NoId, NoId, ok, id))]
         /\ saga' = [saga EXCEPT ![r] = SagaFailure(SagaExecute(@, ok, ChargeCompensation(r, id)), ok, "PaymentDeclined")]
         /\ pc' = [pc EXCEPT ![r] = AfterCharge(r, ok)]
         /\ IF ok
              THEN /\ payments' = [payments EXCEPT ![id] = "captured"]
                   /\ pay' = [pay EXCEPT ![r] = id]
                   /\ UNCHANGED error
              ELSE /\ error' = [error EXCEPT ![r] = "PaymentDeclined"]
                   /\ UNCHANGED <<payments, pay>>
    /\ UNCHANGED <<resv, ord, result, reservations, orders>>
    /\ UNCHANGED outsideSaga

\* Step 3: saga.execute(() => orderRepository.create({...orderRequest,
\*            inventoryReservationId: inventoryReservation.id,
\*            paymentId: payment.id}), ...)
Create(r) ==
    /\ pc[r] = "create"
    /\ inflight[r] >= 1
    /\ inflight' = [inflight EXCEPT ![r] = @ - 1]
    /\ \E ok \in BOOLEAN :
         LET id == IF ok THEN NewId(orders, r) ELSE NoId IN
         /\ log' = [log EXCEPT ![r] = Append(@, Call("create", resv[r], pay[r], ok, id))]
         /\ saga' = [saga EXCEPT ![r] = SagaFailure(SagaExecute(@, ok, CreateCompensation(r, id)), ok, "StoreError")]
         /\ pc' = [pc EXCEPT ![r] = AfterCreate(r, ok)]
         /\ IF ok
              THEN /\ orders' = [orders EXCEPT ![id] = "confirmed"]
                   /\ ord' = [ord EXCEPT ![r] = id]
                   /\ UNCHANGED error
              ELSE /\ error' = [error EXCEPT ![r] = "StoreError"]
                   /\ UNCHANGED <<orders, ord>>
    /\ UNCHANGED <<resv, pay, result, reservations, payments>>
    /\ UNCHANGED outsideSaga

\* Step 4: saga.execute(() => notificationService.sendOrderConfirmation(order), ...)
Notify(r) ==
    /\ pc[r] = "notify"
    /\ inflight[r] >= 1
    /\ inflight' = [inflight EXCEPT ![r] = @ - 1]
    /\ \E ok \in BOOLEAN :
         /\ log' = [log EXCEPT ![r] = Append(@, Call("notify", ord[r], NoId, ok, NoId))]
         /\ saga' = [saga EXCEPT ![r] = SagaFailure(SagaExecute(@, ok, NotifyCompensation(r, NoId)), ok, "DispatchError")]
         /\ pc' = [pc EXCEPT ![r] = AfterNotify(r, ok)]
         /\ error' = IF ok THEN error ELSE [error EXCEPT ![r] = "DispatchError"]
    /\ UNCHANGED <<resv, pay, ord, result, reservations, payments, orders>>
    /\ UNCHANGED outsideSaga

\* await saga.commit(); return { success: true, order };
Commit(r) ==
    /\ pc[r] = "commit"
    /\ saga' = [saga EXCEPT ![r] = SagaCommit(@)]
    /\ result' = [result EXCEPT ![r] = [kind |-> "success", error |-> "none", order |-> ord[r],
                                        original |-> "none", compensation |-> "none"]]
    /\ pc' = [pc EXCEPT ![r] = "done"]
    /\ UNCHANGED <<resv, pay, ord, error, log, inflight, reservations, payments, orders>>
    /\ UNCHANGED outsideSaga

\* the effect of a compensation on its collaborator
CompEffect(r, c, ok) ==
    /\ reservations' = IF ok /\ c.comp = "cancelReservation"
                         THEN [reservations EXCEPT ![c.arg] = "released"] ELSE reservations
    /\ payments' = IF ok /\ c.comp = "refund"
                     THEN [payments EXCEPT ![c.arg] = "refunded"] ELSE payments
    /\ orders' = IF ok /\ c.comp = "cancel"
                   THEN [orders EXCEPT ![c.arg] = "cancelled"] ELSE orders

\* SagaTransaction.rollback(), one compensation per step: the most recent
\* remembered compensation is invoked; if it fails the transaction is marked
\* rollback-failed and rollback() throws without touching the rest
RollbackStep(r) ==
    /\ pc[r] = "rollback"
    /\ saga[r].stack # <<>>
    /\ inflight[r] >= 1
    /\ inflight' = [inflight EXCEPT ![r] = @ - 1]
    /\ LET c == SagaTop(saga[r]) IN
       \E ok \in (IF c.comp = "noop" THEN {TRUE} ELSE BOOLEAN) :
         /\ log' = [log EXCEPT ![r] = Append(@, Call(c.comp, c.arg, NoId, ok, NoId))]
         /\ CompEffect(r, c, ok)
         /\ IF ok
              THEN /\ saga' = [saga EXCEPT ![r] = SagaPop(@)]
                   /\ UNCHANGED pc
              ELSE /\ saga' = [saga EXCEPT ![r] = SagaRollbackFailed(@)]
                   /\ pc' = [pc EXCEPT ![r] = "rollbackThrew"]
    /\ UNCHANGED <<resv, pay, ord, error, result>>
    /\ UNCHANGED outsideSaga

\* SagaTransaction.rollback(): nothing left to compensate, the transaction is
\* rolled back and rollback() returns
RollbackReturn(r) ==
    /\ pc[r] = "rollback"
    /\ saga[r].stack = <<>>
    /\ saga' = [saga EXCEPT ![r] = SagaRolledBack(@)]
    /\ pc' = [pc EXCEPT ![r] = "rolledBack"]
    /\ UNCHANGED <<resv, pay, ord, error, result, log, inflight, reservations, payments, orders>>
    /\ UNCHANGED outsideSaga

\* catch (error) { await saga.rollback(); return { success: false, error }; }
CatchReturn(r) ==
    /\ pc[r] = "rolledBack"
    /\ result' = [result EXCEPT ![r] = [kind |-> "failure", error |-> error[r], order |-> NoId,
                                        original |-> "none", compensation |-> "none"]]
    /\ pc' = [pc EXCEPT ![r] = "done"]
    /\ UNCHANGED <<saga, resv, pay, ord, error, log, inflight, reservations, payments, orders>>
    /\ UNCHANGED outsideSaga

\* a plausible slip: the catch clause calls saga.rollback() again when it threw
CatchThrowRetry(r) ==
    /\ pc[r] = "rollbackThrew"
    /\ pc' = [pc EXCEPT ![r] = "rollback"]
    /\ UNCHANGED <<saga, resv, pay, ord, error, result, log, inflight, reservations, payments, orders>>
    /\ UNCHANGED outsideSaga

\* a plausible slip: the catch clause guards saga.rollback() with its own
\* try/catch and returns the original error all the same
CatchThrowSwallow(r) ==
    /\ pc[r] = "rollbackThrew"
    /\ result' = [result EXCEPT ![r] = [kind |-> "failure", error |-> error[r], order |-> NoId,
                                        original |-> "none", compensation |-> "none"]]
    /\ pc' = [pc EXCEPT ![r] = "done"]
    /\ UNCHANGED <<saga, resv, pay, ord, error, log, inflight, reservations, payments, orders>>
    /\ UNCHANGED outsideSaga

\* a plausible slip: the catch clause waits for a retry that is never scheduled
CatchThrowHang(r) ==
    /\ pc[r] = "rollbackThrew"
    /\ UNCHANGED sagaVars
    /\ UNCHANGED outsideSaga

\* catch (error) { await saga.rollback(); -- the exception of rollback() is not
\* caught: processOrder rejects with it
CatchThrow(r) ==
    /\ pc[r] = "rollbackThrew"
    /\ result' = [result EXCEPT ![r] = SagaThrown(saga[r])]
    /\ pc' = [pc EXCEPT ![r] = "done"]
    /\ UNCHANGED <<saga, resv, pay, ord, error, log, inflight, reservations, payments, orders>>
    /\ UNCHANGED outsideSaga

SagaNext ==
    \E r \in Runs :
        \/ Submit(r)
        \/ Begin(r)
        \/ Reserve(r)
        \/ Charge(r)
        \/ Create(r)
        \/ Notify(r)
        \/ Commit(r)
        \/ RollbackStep(r)
        \/ RollbackReturn(r)
        \/ CatchReturn(r)
        \/ CatchThrow(r)

SagaSpec == SagaInit /\ [][SagaNext]_sagaVars

\* the steps of a run once processOrder was called: every collaborator call
\* returns and the continuation after an await is run by the event loop
RunStep(r) ==
    \/ Begin(r)
    \/ Reserve(r)
    \/ Charge(r)
    \/ Create(r)
    \/ Notify(r)
    \/ Commit(r)
    \/ RollbackStep(r)
    \/ RollbackReturn(r)
    \/ CatchReturn(r)
    \/ CatchThrow(r)

SagaFairSpec == SagaSpec /\ \A r \in Runs : WF_sagaVars(RunStep(r))

TypeOK ==
    /\ inflight \in [Runs -> {0, 1}]
    /\ pc \in [Runs -> {"pending", "reserve", "charge", "create", "notify", "commit", "rollback", "rolledBack", "rollbackThrew", "done"}]
    /\ \A r \in Runs : saga[r].status \in {"in-progress", "committed", "rolled-back", "rollback-failed"}
    /\ reservations \in [Ids -> {"none", "active", "released"}]
    /\ payments \in [Ids -> {"none", "captured", "refunded"}]
    /\ orders \in [Ids -> {"none", "confirmed", "cancelled"}]

\* ------------------------------------------------------ reading the log
Forward == {"reserve", "charge", "create", "notify"}
Compensations == {"cancelReservation", "refund", "cancel", "noop"}

\* positions of the log of run r holding a call of op
At(r, op) == {i \in 1..Len(log[r]) : log[r][i].op = op}
OkAt(r, op) == {i \in At(r, op) : log[r][i].ok}
FailedAt(r, op) == {i \in At(r, op) : ~log[r][i].ok}

\* the compensating calls of run r, in the order they were made
CompCalls(r) ==
    LET cs == SelectSeq(log[r], LAMBDA c : c.op \in Compensations)
    IN [i \in 1..Len(cs) |-> [comp |-> cs[i].op, arg |-> cs[i].a1]]

\* the compensation each succeeded forward step calls for, in order of success
Undo(op) == CASE op = "reserve" -> "cancelReservation"
              [] op = "charge"  -> "refund"
              [] op = "create"  -> "cancel"
              [] op = "notify"  -> "noop"
Succeeded(r) ==
    LET fs == SelectSeq(log[r], LAMBDA c : c.op \in Forward /\ c.ok)
    IN [i \in 1..Len(fs) |-> [comp |-> Undo(fs[i].op), arg |-> fs[i].res]]

Returned(r) == pc[r] = "done"

\* nothing the run created is still live in a collaborator
NothingHeld(r) ==
    \A i \in 1..Len(log[r]) :
        LET c == log[r][i] IN
        c.ok =>
          /\ c.op = "reserve" => reservations[c.res] # "active"
          /\ c.op = "charge"  => payments[c.res] # "captured"
          /\ c.op = "create"  => orders[c.res] # "confirmed"

\* ------------------------------------------------------------------- C1
\* C1 as stated: whenever processOrder has ended without success, no
\* reservation, payment capture or confirmed order created by the run is live.
C1_Original ==
    \A r \in Runs : (Returned(r) /\ result[r].kind # "success") => NothingHeld(r)

\* C1 amended: whenever processOrder returns failure after a rollback in which
\* no compensating action failed, no reservation the run created is still
\* active, no payment it captured is un-refunded, no order it created is
\* still confirmed.
C1_CleanFailureHoldsNothing ==
    \A r \in Runs : (Returned(r) /\ result[r].kind = "failure") => NothingHeld(r)

C1_Witness ==
    \E r \in Runs : /\ Returned(r) /\ result[r].kind = "failure"
                    /\ result[r].error = "StoreError"
                    /\ OkAt(r, "refund") # {} /\ OkAt(r, "cancelReservation") # {}

\* ------------------------------------------------------------------- C2
\* C2: the compensating calls of a run are, at every moment, an initial part
\* of the compensations of its succeeded steps taken in reverse order of
\* success, and once the run is rolled-back they are all of them.
C2_ReverseOrderBeforeRolledBack ==
    \A r \in Runs :
        /\ IsPrefix(CompCalls(r), Reverse(Succeeded(r)))
        /\ saga[r].status = "rolled-back" => CompCalls(r) = Reverse(Succeeded(r))

C2_Witness ==
    \E r \in Runs : saga[r].status = "rolled-back" /\ Len(CompCalls(r)) = 3

\* ------------------------------------------------------------------- C3
\* C3: in every run each compensating action is invoked at most once, and
\* only after the forward action of its own step succeeded in that run.
C3_CompensateOnceOnlySucceeded ==
    \A r \in Runs : \A op \in Forward :
        /\ Cardinality(At(r, Undo(op))) <= 1
        /\ \A i \in At(r, Undo(op)) :
               /\ \E j \in OkAt(r, op) : j < i /\ log[r][j].res = log[r][i].a1
               /\ FailedAt(r, op) = {}

C3_Witness ==
    \E r \in Runs : /\ Returned(r)
                    /\ Cardinality(At(r, "refund")) = 1
                    /\ Cardinality(At(r, "cancelReservation")) = 1
                    /\ Cardinality(At(r, "cancel")) = 1

\* ------------------------------------------------------------------- C4
\* C4: a run whose status is committed has made each of reserve, charge,
\* create and notify succeed, with no failed forward call.
C4_CommittedOnlyIfAllSucceeded ==
    \A r \in Runs :
        saga[r].status = "committed" =>
            \A op \in Forward : OkAt(r, op) # {} /\ FailedAt(r, op) = {}

C4_Witness == \E r \in Runs : saga[r].status = "committed"

\* ------------------------------------------------------------------- C5
\* C5: when reserve, charge and create succeeded and the notification failed,
\* no compensating action is invoked, the order stays confirmed and
\* processOrder returns success.
C5_NotifyFailureKeepsOrder ==
    \A r \in Runs :
        FailedAt(r, "notify") # {} =>
            /\ CompCalls(r) = <<>>
            /\ orders[ord[r]] = "confirmed"
            /\ Returned(r) => result[r].kind = "success"

\* ------------------------------------------------------------------- C6
\* C6: when processOrder returns success, reserve, charge, create and notify
\* were each called exactly once and succeeded, no compensating call was made,
\* and the run's reservation is active, its payment captured and its order
\* confirmed.
C6_SuccessExactlyOnce ==
    \A r \in Runs :
        (Returned(r) /\ result[r].kind = "success") =>
            /\ \A op \in Forward :
                   Cardinality(At(r, op)) = 1 /\ Cardinality(OkAt(r, op)) = 1
            /\ CompCalls(r) = <<>>
            /\ reservations[resv[r]] = "active"
            /\ payments[pay[r]] = "captured"
            /\ result[r].order = ord[r] /\ orders[ord[r]] = "confirmed"

C6_Witness ==
    \E r \in Runs : Returned(r) /\ result[r].kind = "success" /\ Len(log[r]) = 4

\* ------------------------------------------------------------------- C7
\* C7: when reserve failed, the run makes no other call at all, and
\* processOrder returns the failure OutOfStock.
C7_ReserveFailureAborts ==
    \A r \in Runs :
        FailedAt(r, "reserve") # {} =>
            /\ Len(log[r]) = 1
            /\ Returned(r) => (result[r].kind = "failure" /\ result[r].error = "OutOfStock")

C7_Witness ==
    \E r \in Runs : Returned(r) /\ FailedAt(r, "reserve") # {} /\ result[r].error = "OutOfStock"

\* ------------------------------------------------------------------- C8
\* what C8 says of the calls: cancelReservation exactly once with the id
\* reserve returned, no refund, no order repository call
C8_Calls(r) ==
    /\ Cardinality(At(r, "cancelReservation")) = 1
    /\ \A i \in At(r, "cancelReservation") : \A j \in OkAt(r, "reserve") :
           log[r][i].a1 = log[r][j].res /\ log[r][i].a1 = resv[r]
    /\ At(r, "refund") = {} /\ At(r, "create") = {} /\ At(r, "cancel") = {}

ChargeFailed(r) == OkAt(r, "reserve") # {} /\ FailedAt(r, "charge") # {}

\* C8 as stated: when reserve succeeded and charge failed, cancelReservation is
\* called exactly once with the run's reservation id, no refund and no order
\* repository call is made, and processOrder returns PaymentDeclined.
C8_Original ==
    \A r \in Runs :
        (ChargeFailed(r) /\ Returned(r)) =>
            /\ C8_Calls(r)
            /\ result[r].kind = "failure" /\ result[r].error = "PaymentDeclined"

\* C8 amended: ... and processOrder returns PaymentDeclined when that
\* cancelReservation succeeded; when it failed processOrder ends with the
\* compensation error instead.
C8_ChargeFailureReleasesOnce ==
    \A r \in Runs :
        (ChargeFailed(r) /\ Returned(r)) =>
            /\ C8_Calls(r)
            /\ OkAt(r, "cancelReservation") # {} =>
                   (result[r].kind = "failure" /\ result[r].error = "PaymentDeclined")
            /\ FailedAt(r, "cancelReservation") # {} =>
                   (result[r].kind = "threw" /\ result[r].error = "CompensationError")

C8_Witness ==
    \E r \in Runs : /\ ChargeFailed(r) /\ Returned(r)
                    /\ result[r].error = "PaymentDeclined"
                    /\ reservations[resv[r]] = "released"

\* ------------------------------------------------------------------- C9
CreateFailed(r) == OkAt(r, "charge") # {} /\ FailedAt(r, "create") # {}

\* C9 as stated: when reserve and charge succeeded and create failed, refund is
\* called exactly once, then cancelReservation exactly once, refund first, and
\* processOrder returns StoreError.
C9_Original ==
    \A r \in Runs :
        (CreateFailed(r) /\ Returned(r)) =>
            /\ Cardinality(At(r, "refund")) = 1
            /\ Cardinality(At(r, "cancelReservation")) = 1
            /\ \A i \in At(r, "refund") : \A j \in At(r, "cancelReservation") : i < j
            /\ result[r].kind = "failure" /\ result[r].error = "StoreError"

\* C9 amended: when reserve and charge succeeded and create failed, refund is
\* called exactly once; cancelReservation is never called before it, is called
\* exactly once after it when the refund succeeded and not at all when the
\* refund failed; processOrder returns StoreError when both compensations
\* succeeded.
C9_CreateFailureRefundThenRelease ==
    \A r \in Runs :
        CreateFailed(r) =>
            /\ \A j \in At(r, "cancelReservation") : \E i \in OkAt(r, "refund") : i < j
            /\ Returned(r) =>
                 /\ Cardinality(At(r, "refund")) = 1
                 /\ OkAt(r, "refund") # {} => Cardinality(At(r, "cancelReservation")) = 1
                 /\ FailedAt(r, "refund") # {} => At(r, "cancelReservation") = {}
                 /\ (OkAt(r, "refund") # {} /\ OkAt(r, "cancelReservation") # {}) =>
                        (result[r].kind = "failure" /\ result[r].error = "StoreError")

C9_Witness ==
    \E r \in Runs : /\ CreateFailed(r) /\ Returned(r)
                    /\ result[r].error = "StoreError"
                    /\ OkAt(r, "refund") # {} /\ OkAt(r, "cancelReservation") # {}

\* ------------------------------------------------------------------ C10
\* C10: a failed compensating call is the last call its run ever makes (no
\* further compensation, no second attempt), and from that call on the run's
\* status is rollback-failed.
C10_FailedCompensationStopsRollback ==
    \A r \in Runs : \A i \in 1..Len(log[r]) :
        (log[r][i].op \in Compensations /\ ~log[r][i].ok) =>
            /\ i = Len(log[r])
            /\ saga[r].status = "rollback-failed"

C10_Witness ==
    \E r \in Runs : /\ Returned(r) /\ FailedAt(r, "refund") # {}
                    /\ reservations[resv[r]] = "active"
                    /\ saga[r].status = "rollback-failed"

\* ------------------------------------------------------------------ C11
\* the error each forward step fails with
ErrorOf(op) == CASE op = "reserve" -> "OutOfStock"
                 [] op = "charge"  -> "PaymentDeclined"
                 [] op = "create"  -> "StoreError"
                 [] op = "notify"  -> "DispatchError"

FailedForward(r) == {i \in 1..Len(log[r]) : log[r][i].op \in Forward /\ ~log[r][i].ok}
FailedComp(r) == {i \in 1..Len(log[r]) : log[r][i].op \in Compensations /\ ~log[r][i].ok}

\* C11: a run that ended rollback-failed gave its caller a CompensationError,
\* which is none of the step errors and carries the error of the step that
\* failed together with the compensation that failed; every other run that
\* ended without success gave its caller the failed step's error and nothing
\* else.
C11_CompensationErrorCarriesBoth ==
    \A r \in Runs :
        Returned(r) =>
            /\ saga[r].status = "rollback-failed" =>
                 /\ result[r].kind = "threw"
                 /\ result[r].error = "CompensationError"
                 /\ result[r].error \notin {ErrorOf(op) : op \in Forward}
                 /\ \E i \in FailedForward(r) : result[r].original = ErrorOf(log[r][i].op)
                 /\ \E j \in FailedComp(r) : result[r].compensation = log[r][j].op
            /\ (saga[r].status # "rollback-failed" /\ result[r].kind # "success") =>
                 /\ result[r].kind = "failure"
                 /\ \E i \in FailedForward(r) : result[r].error = ErrorOf(log[r][i].op)
                 /\ result[r].original = "none" /\ result[r].compensation = "none"

C11_Witness ==
    \E r \in Runs : /\ Returned(r) /\ saga[r].status = "rollback-failed"
                    /\ result[r].original = "StoreError"
                    /\ result[r].compensation = "refund"

\* ------------------------------------------------------------------ C13
\* the ids the forward calls of run r returned
OwnIds(r, op) == {log[r][i].res : i \in OkAt(r, op)}

\* every id run r passes to a collaborator was returned to r itself, and no
\* other run was given the same id
UsesOwnIds(r) ==
    /\ \A i \in At(r, "cancelReservation") : log[r][i].a1 \in OwnIds(r, "reserve")
    /\ \A i \in At(r, "refund") : log[r][i].a1 \in OwnIds(r, "charge")
    /\ \A i \in At(r, "cancel") : log[r][i].a1 \in OwnIds(r, "create")
    /\ \A i \in OkAt(r, "create") : /\ log[r][i].a1 \in OwnIds(r, "reserve")
                                   /\ log[r][i].a2 \in OwnIds(r, "charge")
    /\ \A i \in At(r, "notify") : log[r][i].a1 \in OwnIds(r, "create")
    /\ \A q \in Runs \ {r} : \A op \in {"reserve", "charge", "create"} :
           OwnIds(r, op) \cap OwnIds(q, op) = {}

\* a step of run r leaves every other run, and every record another run
\* created, as it was
StepOf(r) ==
    \A q \in Runs \ {r} :
        /\ pc'[q] = pc[q] /\ saga'[q] = saga[q] /\ log'[q] = log[q]
        /\ resv'[q] = resv[q] /\ pay'[q] = pay[q] /\ ord'[q] = ord[q]
        /\ error'[q] = error[q] /\ result'[q] = result[q] /\ inflight'[q] = inflight[q]
        /\ \A id \in OwnIds(q, "reserve") : reservations'[id] = reservations[id]
        /\ \A id \in OwnIds(q, "charge") : payments'[id] = payments[id]
        /\ \A id \in OwnIds(q, "create") : orders'[id] = orders[id]

\* C13: under every interleaving, each step belongs to one run and touches
\* only that run's state and the records that run created, and the ids a run
\* releases, refunds, cancels or writes into its order are ids its own steps
\* produced.
C13_RunsAreIndependent ==
    [][(\E r \in Runs : StepOf(r)) /\ (\A r \in Runs : UsesOwnIds(r))']_sagaVars

C13_Witness ==
    \E r \in Runs : \E q \in Runs \ {r} :
        /\ OkAt(r, "refund") # {} /\ pc[r] = "rollback" /\ inflight[r] = 1
        /\ OkAt(q, "cancel") # {} /\ pc[q] = "rollback" /\ inflight[q] = 1

\* ------------------------------------------------------------------ C14
\* C14: within a run each of reserve, charge, create and notify is called at
\* most once, whether it succeeded or failed.
C14_NoForwardRetry ==
    \A r \in Runs : \A op \in Forward : Cardinality(At(r, op)) <= 1

C14_Witness ==
    \E r \in Runs : /\ Returned(r)
                    /\ FailedAt(r, "create") # {}
                    /\ Cardinality(At(r, "create")) = 1

\* ------------------------------------------------------------------ C15
\* C15: the only order repository operation a run invokes is create; it never
\* cancels (updates, deletes) an order it persisted.
C15_OnlyCreateOnOrderStore ==
    \A r \in Runs : At(r, "cancel") = {}

\* ------------------------------------------------------------------ C16
\* the step before each forward step
Prev(op) == CASE op = "charge" -> "reserve"
              [] op = "create" -> "charge"
              [] op = "notify" -> "create"

\* C16: a run never has two collaborator calls in flight, and the forward call
\* of a step is made only when the call made just before it was the forward
\* call of the preceding step and it returned success.
C16_StrictlySequential ==
    \A r \in Runs :
        /\ inflight[r] <= 1
        /\ \A i \in 1..Len(log[r]) :
               log[r][i].op \in {"charge", "create", "notify"} =>
                   /\ i > 1
                   /\ log[r][i - 1].op = Prev(log[r][i].op) /\ log[r][i - 1].ok
        /\ (inflight[r] >= 1 /\ pc[r] \in {"charge", "create", "notify"}) =>
               /\ log[r] # <<>>
               /\ log[r][Len(log[r])].op = Prev(pc[r]) /\ log[r][Len(log[r])].ok
        /\ (inflight[r] >= 1 /\ pc[r] = "reserve") => log[r] = <<>>

C16_Witness ==
    \E r \in Runs : inflight[r] = 1 /\ pc[r] = "notify" /\ Len(log[r]) = 3

\* ------------------------------------------------------------------ C17
\* the state of the specified state machine a run is in
RollingBack(comp) == CASE comp = "cancelReservation" -> "RollingBackInventory"
                       [] comp = "refund" -> "RollingBackPayment"
                       [] comp = "cancel" -> "RollingBackOrder"
                       [] comp = "noop"   -> "RollingBackNotification"
StepFailed(op) == CASE op = "reserve" -> "ReserveFailed"
                    [] op = "charge"  -> "ChargeFailed"
                    [] op = "create"  -> "PersistFailed"
                    [] op = "notify"  -> "NotifyFailed"
State(r) ==
    LET last == log[r][Len(log[r])] IN
    CASE pc[r] = "pending" -> "Pending"
      [] pc[r] = "reserve" -> "ReservingInventory"
      [] pc[r] = "charge"  -> IF inflight[r] = 0 THEN "Reserved" ELSE "ChargingPayment"
      [] pc[r] = "create"  -> IF inflight[r] = 0 THEN "Charged" ELSE "PersistingOrder"
      [] pc[r] = "notify"  -> IF inflight[r] = 0 THEN "Committed" ELSE "Notifying"
      [] pc[r] = "commit"  -> "Notifying"
      [] pc[r] = "rollback" ->
            IF inflight[r] = 0 /\ last.op \in Forward THEN StepFailed(last.op)
            ELSE IF saga[r].stack # <<>> THEN RollingBack(SagaTop(saga[r]).comp)
            ELSE RollingBack(last.op)
      [] pc[r] = "rollbackThrew" -> "RollbackFailed"
      [] pc[r] \in {"rolledBack", "done"} ->
            IF saga[r].status = "committed" THEN "Done"
            ELSE IF saga[r].status = "rollback-failed" THEN "RollbackFailed"
            ELSE IF error[r] = "OutOfStock" THEN "Aborted" ELSE "RolledBack"

Transitions ==
    { <<"Pending", "ReservingInventory">>,
      <<"ReservingInventory", "Reserved">>, <<"ReservingInventory", "ReserveFailed">>,
      <<"Reserved", "ChargingPayment">>,
      <<"ChargingPayment", "Charged">>, <<"ChargingPayment", "ChargeFailed">>,
      <<"Charged", "PersistingOrder">>,
      <<"PersistingOrder", "Committed">>, <<"PersistingOrder", "PersistFailed">>,
      <<"Committed", "Notifying">>, <<"Notifying", "Done">>,
      <<"ReserveFailed", "Aborted">>,
      <<"ChargeFailed", "RollingBackInventory">>,
      <<"PersistFailed", "RollingBackPayment">>,
      <<"RollingBackPayment", "RollingBackInventory">>,
      <<"RollingBackInventory", "RolledBack">>,
      <<"RollingBackPayment", "RollbackFailed">>,
      <<"RollingBackInventory", "RollbackFailed">> }

\* C17: every change of a run's state is a transition of the specified state
\* machine; in particular Done, Aborted, RolledBack and RollbackFailed are
\* never left.
C17_FollowsStateMachine ==
    [][\A r \in Runs : State(r)' # State(r) => <<State(r), State(r)'>> \in Transitions]_sagaVars

\* ------------------------------------------------------------------ C18
Terminal == {"Done", "Aborted", "RolledBack", "RollbackFailed"}

\* C18: when every collaborator call returns, every run that was submitted
\* eventually has returned a result to its caller in one of the terminal
\* states.
C18_EveryRunTerminates ==
    \A r \in Runs :
        (pc[r] # "pending") ~>
            (Returned(r) /\ result[r].kind # "pending" /\ State(r) \in Terminal)

C18_Witness ==
    /\ \A r \in Runs : Returned(r) /\ State(r) \in Terminal
    /\ \E r \in Runs : State(r) = "RollbackFailed"
    /\ \E r \in Runs : State(r) = "Done"

\* ------------------------------------------------------------------ C19
\* C19: the charge call of a run carries the reservation id its reserve call
\* returned, and the create call carries that reservation id and the payment
\* id its charge call returned.
C19_ArtifactsFlowForward ==
    \A r \in Runs :
        /\ \A i \in At(r, "charge") :
               log[r][i].a1 # NoId /\ log[r][i].a1 \in OwnIds(r, "reserve")
        /\ \A i \in At(r, "create") :
               /\ log[r][i].a1 # NoId /\ log[r][i].a1 \in OwnIds(r, "reserve")
               /\ log[r][i].a2 # NoId /\ log[r][i].a2 \in OwnIds(r, "charge")

\* ------------------------------------------------------------------ C20
\* C20: when a run has ended committed or rolled-back, the order repository
\* holds a record of that run showing its terminal status (confirmed for a
\* committed run, cancelled for a rolled-back one).
C20_TerminalStatusPersisted ==
    \A r \in Runs :
        (Returned(r) /\ saga[r].status \in {"committed", "rolled-back"}) =>
            \E id \in OwnIds(r, "create") :
                orders[id] = IF saga[r].status = "committed" THEN "confirmed" ELSE "cancelled"

\* ======================================================================
\* The storefront: the reducer of src/AppContext.tsx, the handlers of the
\* cart page (src/Cart.tsx) and of ProductCard
\* ======================================================================

\* -------------------------------------------------------------- bounds
\* actions dispatched and buttons clicked in one session
MaxDispatch == 3

\* ----------------------------------------------------------- mock data
null == "null"
\* mockUser, by its id
mockUser == "1"
\* mockProducts, each by its id and its price (in cents: 299.99 is 29999)
mockProducts ==
    << [id |-> "1", price |-> 29999], [id |-> "2", price |-> 19999],
       [id |-> "3", price |-> 2999],  [id |-> "4", price |-> 129999],
       [id |-> "5", price |-> 7999],  [id |-> "6", price |-> 2499] >>
mockCartItems ==
    << [id |-> "1", productId |-> "1", product |-> mockProducts[1], quantity |-> 1],
       [id |-> "2", productId |-> "3", product |-> mockProducts[3], quantity |-> 2] >>

initialState ==
    [user |-> mockUser, cart |-> mockCartItems, isAuthenticated |-> TRUE,
     loading |-> FALSE, error |-> null]

\* ------------------------------------------------------- action creators
setUser(user) == [type |-> "SET_USER", payload |-> user]
setCart(cart) == [type |-> "SET_CART", payload |-> cart]
addToCart(product, quantity) ==
    [type |-> "ADD_TO_CART", payload |-> [product |-> product, quantity |-> quantity]]
updateCartItem(id, quantity) ==
    [type |-> "UPDATE_CART_ITEM", payload |-> [id |-> id, quantity |-> quantity]]
removeFromCart(id) == [type |-> "REMOVE_FROM_CART", payload |-> id]
clearCart == [type |-> "CLEAR_CART", payload |-> null]
setLoading(loading) == [type |-> "SET_LOADING", payload |-> loading]
setError(err) == [type |-> "SET_ERROR", payload |-> err]

\* -------------------------------------------------------------- reducer
\* a plausible slip: isAuthenticated is left as it was
SET_USERStale(s, payload) == [s EXCEPT !.user = payload]
\* case 'SET_USER'
SET_USER(s, payload) ==
    [s EXCEPT !.user = payload, !.isAuthenticated = (payload # null)]

\* case 'SET_CART'
SET_CART(s, payload) == [s EXCEPT !.cart = payload]

\* a plausible slip: the item is appended without looking for the product
ADD_TO_CARTAppend(s, payload, now) ==
    [s EXCEPT !.cart = Append(@, [id |-> ToString(now),
                                  productId |-> payload.product.id,
                                  product |-> payload.product,
                                  quantity |-> payload.quantity])]
\* case 'ADD_TO_CART'; now is what Date.now() returns
ADD_TO_CART(s, payload, now) ==
    LET found == SelectSeq(s.cart, LAMBDA item : item.productId = payload.product.id)
    IN  IF found # <<>>
        THEN LET existingItem == Head(found)
                 Add(item) == IF item.id = existingItem.id
                              THEN [item EXCEPT !.quantity = @ + payload.quantity]
                              ELSE item
             IN  [s EXCEPT !.cart = [i \in 1..Len(s.cart) |-> Add(s.cart[i])]]
        ELSE LET newItem == [id |-> ToString(now),
                             productId |-> payload.product.id,
                             product |-> payload.product,
                             quantity |-> payload.quantity]
             IN  [s EXCEPT !.cart = Append(@, newItem)]

\* case 'UPDATE_CART_ITEM'
UPDATE_CART_ITEM(s, payload) ==
    LET Set(item) == IF item.id = payload.id
                     THEN [item EXCEPT !.quantity = payload.quantity]
                     ELSE item
    IN  [s EXCEPT !.cart = [i \in 1..Len(s.cart) |-> Set(s.cart[i])]]

\* case 'REMOVE_FROM_CART'
REMOVE_FROM_CART(s, payload) ==
    [s EXCEPT !.cart = SelectSeq(@, LAMBDA item : item.id # payload)]

\* case 'CLEAR_CART'
CLEAR_CART(s) == [s EXCEPT !.cart = <<>>]

\* case 'SET_LOADING'
SET_LOADING(s, payload) == [s EXCEPT !.loading = payload]

\* case 'SET_ERROR'
SET_ERROR(s, payload) == [s EXCEPT !.error = payload]

appReducer(s, action, now) ==
    CASE action.type = "SET_USER" -> SET_USER(s, action.payload)
      [] action.type = "SET_CART" -> SET_CART(s, action.payload)
      [] action.type = "ADD_TO_CART" -> ADD_TO_CART(s, action.payload, now)
      [] action.type = "UPDATE_CART_ITEM" -> UPDATE_CART_ITEM(s, action.payload)
      [] action.type = "REMOVE_FROM_CART" -> REMOVE_FROM_CART(s, action.payload)
      [] action.type = "CLEAR_CART" -> CLEAR_CART(s)
      [] action.type = "SET_LOADING" -> SET_LOADING(s, action.payload)
      [] action.type = "SET_ERROR" -> SET_ERROR(s, action.payload)
      [] OTHER -> s

\* ------------------------------------------------------------- dispatch
\* the products, quantities, ids and users the actions are dispatched with
Payloads == {mockProducts[1], mockProducts[2], mockProducts[4]}
Quantities == {1, 2}
UpdateQuantities == {0, 1, 3}
ItemIds == {state.cart[i].id : i \in 1..Len(state.cart)} \cup {"0"}
UserPayloads == {null, mockUser, "2"}
CartPayloads == {<<>>, mockCartItems, <<mockCartItems[1], mockCartItems[1]>>}
ErrorPayloads == {null, "Network error"}

\* Date.now(): the millisecond of the last reading, or a later one
Now == {clock, clock + 1}

\* the cart page before it is rendered
NotRendered == [rendered |-> FALSE]

AppInit ==
    /\ state = initialState
    \* the clock is past the ids '1' and '2' of the mock items
    /\ clock = Len(mockCartItems) + 1
    /\ event = [type |-> "@@INIT", payload |-> null]
    /\ dispatched = 0
    /\ view = NotRendered
    /\ SagaParked /\ UserParked /\ StoreParked

\* dispatch(action) of useReducer(appReducer, initialState)
Dispatch(action, now) ==
    /\ dispatched < MaxDispatch
    /\ state' = appReducer(state, action, now)
    /\ clock' = now
    /\ event' = action
    /\ dispatched' = dispatched + 1
    /\ UNCHANGED view
    /\ UNCHANGED outsideApp

AddToCart ==
    \E product \in Payloads, quantity \in Quantities, now \in Now :
        Dispatch(addToCart(product, quantity), now)
UpdateCartItem ==
    \E id \in ItemIds, quantity \in UpdateQuantities :
        Dispatch(updateCartItem(id, quantity), clock)
RemoveFromCart == \E id \in ItemIds : Dispatch(removeFromCart(id), clock)
ClearCart == Dispatch(clearCart, clock)
SetUser == \E user \in UserPayloads : Dispatch(setUser(user), clock)
SetCart == \E cart \in CartPayloads : Dispatch(setCart(cart), clock)
SetLoading == \E loading \in BOOLEAN : Dispatch(setLoading(loading), clock)
SetError == \E err \in ErrorPayloads : Dispatch(setError(err), clock)

\* the four cart actions, from the initial cart
CartNext == AddToCart \/ UpdateCartItem \/ RemoveFromCart \/ ClearCart
CartSpec == AppInit /\ [][CartNext]_appVars

\* every action of AppAction
AppNext ==
    \/ AddToCart
    \/ UpdateCartItem
    \/ RemoveFromCart
    \/ ClearCart
    \/ SetUser
    \/ SetCart
    \/ SetLoading
    \/ SetError
AppSpec == AppInit /\ [][AppNext]_appVars

\* ------------------------------------------------------------ the pages
\* a plausible slip: the guard of updateQuantity is missing
updateQuantityUnguarded(s, itemId, newQuantity) ==
    appReducer(s, updateCartItem(itemId, newQuantity), clock)
\* Cart.updateQuantity: if (newQuantity < 1) return; dispatch(updateCartItem(...))
updateQuantity(s, itemId, newQuantity) ==
    IF newQuantity < 1
    THEN s
    ELSE appReducer(s, updateCartItem(itemId, newQuantity), clock)

\* Cart.removeItem
removeItem(s, itemId) == appReducer(s, removeFromCart(itemId), clock)

\* a button of the page is clicked and its handler runs to its end
Click(button, arg, next, now) ==
    /\ dispatched < MaxDispatch
    /\ state' = next
    /\ clock' = now
    /\ event' = [type |-> button, payload |-> arg]
    /\ dispatched' = dispatched + 1
    /\ UNCHANGED view
    /\ UNCHANGED outsideApp

\* ProductCard.handleAddToCart: dispatch(actions.addToCart(product, 1))
HandleAddToCart ==
    \E product \in Payloads, now \in Now :
        Click("handleAddToCart", product.id,
              appReducer(state, addToCart(product, 1), now), now)

\* the minus button of a cart line: updateQuantity(item.id, item.quantity - 1)
Minus ==
    \E i \in 1..Len(state.cart) :
        LET item == state.cart[i]
        IN  Click("minus", item, updateQuantity(state, item.id, item.quantity - 1), clock)

\* the plus button of a cart line: updateQuantity(item.id, item.quantity + 1)
Plus ==
    \E i \in 1..Len(state.cart) :
        LET item == state.cart[i]
        IN  Click("plus", item, updateQuantity(state, item.id, item.quantity + 1), clock)

\* the X button of a cart line: removeItem(item.id)
RemoveItem ==
    \E i \in 1..Len(state.cart) :
        LET item == state.cart[i]
        IN  Click("removeItem", item, removeItem(state, item.id), clock)

PageNext == HandleAddToCart \/ Minus \/ Plus \/ RemoveItem
PageSpec == AppInit /\ [][PageNext]_appVars

\* ----------------------------------------------------- reading the cart
ItemsOf(cart) == {cart[i] : i \in 1..Len(cart)}
OneItemPerProduct(cart) ==
    \A i, j \in 1..Len(cart) : cart[i].productId = cart[j].productId => i = j
OneItemPerId(cart) ==
    \A i, j \in 1..Len(cart) : cart[i].id = cart[j].id => i = j
QuantityOf(cart, productId) ==
    LET found == SelectSeq(cart, LAMBDA item : item.productId = productId)
    IN  IF found = <<>> THEN 0 ELSE Head(found).quantity
CartActions == {"ADD_TO_CART", "UPDATE_CART_ITEM", "REMOVE_FROM_CART", "CLEAR_CART"}

\* ------------------------------------------------------------------- C26
\* C26: from the initial cart, under ADD_TO_CART, UPDATE_CART_ITEM,
\* REMOVE_FROM_CART and CLEAR_CART no two cart items have the same productId;
\* an ADD_TO_CART of a product already in the cart adds the quantity of the
\* action to that product's item and leaves the number of items as it was.
C26_OneItemPerProduct ==
    [][ /\ OneItemPerProduct(state.cart)
        /\ OneItemPerProduct(state'.cart)
        /\ (/\ event'.type = "ADD_TO_CART"
            /\ QuantityOf(state.cart, event'.payload.product.id) > 0)
           => /\ Len(state'.cart) = Len(state.cart)
              /\ QuantityOf(state'.cart, event'.payload.product.id)
                    = QuantityOf(state.cart, event'.payload.product.id)
                        + event'.payload.quantity ]_appVars

\* product '1' of the initial cart was added again
C26_Witness ==
    /\ dispatched = 1
    /\ event.type = "ADD_TO_CART"
    /\ event.payload.product.id = "1"
    /\ Len(state.cart) = 2
    /\ QuantityOf(state.cart, "1") = 1 + event.payload.quantity

\* ------------------------------------------------------------------- C27
\* C27: the ids of the cart items are pairwise distinct in every reachable
\* cart, also after two ADD_TO_CART actions for different products handled at
\* the same clock value, so that an UPDATE_CART_ITEM or REMOVE_FROM_CART for
\* an id touches one item only.
C27_ItemIdsDistinct == OneItemPerId(state.cart)

\* ------------------------------------------------------------------- C28
\* C28: through the handlers of the pages (ProductCard adding quantity 1,
\* the plus and minus buttons through updateQuantity, removeItem) every cart
\* item keeps a quantity of at least 1, and a minus click on an item of
\* quantity 1 leaves the cart as it was.
C28_QuantityAtLeastOne ==
    [][ /\ \A item \in ItemsOf(state.cart) : item.quantity >= 1
        /\ \A item \in ItemsOf(state'.cart) : item.quantity >= 1
        /\ (event'.type = "minus" /\ event'.payload.quantity = 1)
           => state'.cart = state.cart ]_appVars

\* the minus button of an item of quantity 1 was clicked
C28_Witness ==
    /\ event.type = "minus"
    /\ event.payload.quantity = 1
    /\ event.payload \in ItemsOf(state.cart)

\* ------------------------------------------------------------------- C29
\* C29: in every reachable application state isAuthenticated is true exactly
\* when user is not null, and every action other than SET_USER (the cart,
\* loading and error actions) leaves user and isAuthenticated as they were.
C29_AuthenticatedIffUser ==
    [][ /\ state.isAuthenticated <=> state.user # null
        /\ state'.isAuthenticated <=> state'.user # null
        /\ event'.type # "SET_USER"
           => /\ state'.user = state.user
              /\ state'.isAuthenticated = state.isAuthenticated ]_appVars

\* a cart action was handled after the user was set to null
C29_Witness ==
    /\ event.type \in CartActions
    /\ state.user = null
    /\ ~state.isAuthenticated

\* ======================================================================
\* JavaScript numbers: IEEE 754 binary64, round to nearest, ties to even.
\* The values of the cart page are positive and far from the ends of the
\* exponent range, so a number is its 53-bit significand m and its exponent
\* e, standing for m * 2^e.  Significands and the exact sums and products
\* before rounding are naturals of any size, kept as sequences of 15-bit
\* limbs, least significant first, without leading zero limbs.
\* ======================================================================
Limb == 2^15
Precision == 53

RECURSIVE NatOf(_)
NatOf(n) == IF n = 0 THEN <<>> ELSE <<n % Limb>> \o NatOf(n \div Limb)

RECURSIVE Trim(_)
Trim(a) == IF a # <<>> /\ a[Len(a)] = 0 THEN Trim(SubSeq(a, 1, Len(a) - 1)) ELSE a

RECURSIVE NatAddCarry(_, _, _)
NatAddCarry(a, b, carry) ==
    IF a = <<>> /\ b = <<>>
    THEN NatOf(carry)
    ELSE LET x == (IF a = <<>> THEN 0 ELSE Head(a)) + (IF b = <<>> THEN 0 ELSE Head(b)) + carry
         IN  <<x % Limb>> \o NatAddCarry(IF a = <<>> THEN a ELSE Tail(a),
                                         IF b = <<>> THEN b ELSE Tail(b), x \div Limb)
NatAdd(a, b) == Trim(NatAddCarry(a, b, 0))

\* a * k + carry for a small k (k <= Limb)
RECURSIVE NatScaleCarry(_, _, _)
NatScaleCarry(a, k, carry) ==
    IF a = <<>>
    THEN NatOf(carry)
    ELSE LET x == Head(a) * k + carry
         IN  <<x % Limb>> \o NatScaleCarry(Tail(a), k, x \div Limb)
NatScale(a, k) == Trim(NatScaleCarry(a, k, 0))

RECURSIVE NatMul(_, _)
NatMul(a, b) ==
    IF b = <<>>
    THEN <<>>
    ELSE NatAdd(NatScale(a, Head(b)), Trim(<<0>> \o NatMul(a, Tail(b))))

\* quotient and remainder of a by a small d (d <= Limb)
RECURSIVE NatDivRem(_, _)
NatDivRem(a, d) ==
    IF a = <<>>
    THEN [q |-> <<>>, r |-> 0]
    ELSE LET hi == NatDivRem(Tail(a), d)
             x == hi.r * Limb + Head(a)
         IN  [q |-> Trim(<<x \div d>> \o hi.q), r |-> x % d]

RECURSIVE NatLess(_, _)
NatLess(a, b) ==
    IF Len(a) # Len(b)
    THEN Len(a) < Len(b)
    ELSE IF a = <<>>
         THEN FALSE
         ELSE IF a[Len(a)] # b[Len(b)]
              THEN a[Len(a)] < b[Len(b)]
              ELSE NatLess(Trim(SubSeq(a, 1, Len(a) - 1)), Trim(SubSeq(b, 1, Len(b) - 1)))

NatOdd(a) == a # <<>> /\ a[1] % 2 = 1

\* number of bits of a
BitLen(a) ==
    IF a = <<>>
    THEN 0
    ELSE 15 * (Len(a) - 1) + (CHOOSE k \in 1..15 : 2^(k - 1) <= a[Len(a)] /\ a[Len(a)] < 2^k)

\* a * 2^k and the integer part of a / 2^k
ShiftLeft(a, k) ==
    IF a = <<>> THEN a ELSE [i \in 1..(k \div 15) |-> 0] \o NatScale(a, 2^(k % 15))
ShiftRight(a, k) ==
    IF k \div 15 >= Len(a)
    THEN <<>>
    ELSE NatDivRem(SubSeq(a, (k \div 15) + 1, Len(a)), 2^(k % 15)).q

Zero == [m |-> <<>>, e |-> 0]

\* the number nearest to n * 2^e, ties to the even significand
Round(n, e) ==
    LET len == BitLen(n)
    IN  IF n = <<>>
        THEN Zero
        ELSE IF len <= Precision
        THEN [m |-> ShiftLeft(n, Precision - len), e |-> e - (Precision - len)]
        ELSE LET k == len - Precision
                 withGuard == ShiftRight(n, k - 1)
                 q == ShiftRight(withGuard, 1)
                 guard == NatOdd(withGuard)
                 sticky == ShiftLeft(withGuard, k - 1) # n
                 up == guard /\ (sticky \/ NatOdd(q))
                 r == IF up THEN NatAdd(q, <<1>>) ELSE q
             IN  IF BitLen(r) > Precision
                 THEN [m |-> ShiftRight(r, 1), e |-> e + k + 1]
                 ELSE [m |-> r, e |-> e + k]

\* an integer as a number
FromInt(n) == Round(NatOf(n), 0)

\* a decimal literal num / den (299.99 is 29999 / 100) as the number nearest to
\* it: the quotient to 70 binary places, a remainder making it sticky
FromRatio(num, den) ==
    LET dr == NatDivRem(ShiftLeft(NatOf(num), 70), den)
        q == IF dr.r = 0 \/ NatOdd(dr.q) THEN dr.q ELSE NatAdd(dr.q, <<1>>)
    IN  Round(q, 0 - 70)

Min(a, b) == IF a < b THEN a ELSE b

\* x + y
NumAdd(x, y) ==
    IF x.m = <<>> THEN y
    ELSE IF y.m = <<>> THEN x
    ELSE LET e == Min(x.e, y.e)
         IN  Round(NatAdd(ShiftLeft(x.m, x.e - e), ShiftLeft(y.m, y.e - e)), e)

\* x * y
NumMul(x, y) == Round(NatMul(x.m, y.m), x.e + y.e)

\* x > y
NumGreater(x, y) ==
    IF y.m = <<>> THEN x.m # <<>>
    ELSE IF x.m = <<>> THEN FALSE
    ELSE LET e == Min(x.e, y.e)
         IN  NatLess(ShiftLeft(y.m, y.e - e), ShiftLeft(x.m, x.e - e))

\* ------------------------------------------------- the cart page's totals
\* largest quantity of a cart line the page is rendered with
MaxQuantity == 3

\* item.product.price, a decimal literal of dollars and cents
Price(product) == FromRatio(product.price, 100)

\* state.cart.reduce((total, item) => total + item.product.price * item.quantity, 0)
RECURSIVE Reduce(_, _)
Reduce(total, items) ==
    IF items = <<>>
    THEN total
    ELSE Reduce(NumAdd(total, NumMul(Price(Head(items).product), FromInt(Head(items).quantity))),
                Tail(items))
subtotal(cart) == Reduce(FromInt(0), cart)

\* subtotal * 0.08
tax(sub) == NumMul(sub, FromRatio(8, 100))

\* subtotal > 50 ? 0 : 9.99
shipping(sub) == IF NumGreater(sub, FromInt(50)) THEN FromInt(0) ELSE FromRatio(999, 100)

\* subtotal + tax + shipping
total(sub, t, sh) == NumAdd(NumAdd(sub, t), sh)

\* the prices (in cents) of the products the page is rendered with: two of
\* mockProducts, and products whose lines add up to $50.00
Prices == {2, 1666, 2499, 2999, 5000}
Lines == {[price |-> p, quantity |-> q] : p \in Prices, q \in 1..MaxQuantity}
CartOf(lines) ==
    [i \in 1..Len(lines) |->
        [id |-> ToString(i), productId |-> ToString(i),
         product |-> [id |-> ToString(i), price |-> lines[i].price],
         quantity |-> lines[i].quantity]]
Carts == {CartOf(<<a>>) : a \in Lines} \cup {CartOf(<<a, b>>) : a \in Lines, b \in Lines}

TotalsInit ==
    /\ \E cart \in Carts : state = [initialState EXCEPT !.cart = cart]
    /\ clock = Len(state.cart) + 1
    /\ event = [type |-> "@@INIT", payload |-> null]
    /\ dispatched = 0
    /\ view = NotRendered
    /\ SagaParked /\ UserParked /\ StoreParked

\* Cart() renders: lines 9-12 compute what the order summary shows
Render ==
    /\ view = NotRendered
    /\ LET sub == subtotal(state.cart)
           t == tax(sub)
           sh == shipping(sub)
       IN  view' = [rendered |-> TRUE, subtotal |-> sub, tax |-> t, shipping |-> sh,
                    total |-> total(sub, t, sh)]
    /\ UNCHANGED <<state, clock, event, dispatched>>
    /\ UNCHANGED outsideApp

TotalsNext == Render
TotalsSpec == TotalsInit /\ [][TotalsNext]_appVars

\* ------------------------------------------------------------------- C21
\* the subtotal of a cart in whole cents
RECURSIVE Cents(_)
Cents(cart) ==
    IF cart = <<>> THEN 0 ELSE Head(cart).product.price * Head(cart).quantity + Cents(Tail(cart))

\* x is closer than 1 / den to num / den (x < 2^53, num > 0)
Near(x, num, den) ==
    LET scaled == NatScale(x.m, den)
    IN  /\ NatLess(ShiftLeft(NatOf(num - 1), 0 - x.e), scaled)
        /\ NatLess(scaled, ShiftLeft(NatOf(num + 1), 0 - x.e))

\* C21: with prices in whole cents, the shipping the cart page shows is 0
\* exactly when the subtotal is over 5000 cents and 9.99 otherwise, and the
\* total is the subtotal plus 8% of it plus that shipping (to less than a
\* hundredth of a cent).
C21_FreeShippingOverFifty ==
    view.rendered =>
        LET cents == Cents(state.cart)
            ship == IF cents > 5000 THEN 0 ELSE 999
        IN  /\ view.shipping = FromInt(0) <=> cents > 5000
            /\ view.shipping # FromInt(0) => view.shipping = FromRatio(999, 100)
            /\ Near(view.total, cents * 108 + ship * 100, 10000)

\* ======================================================================
\* The user service: UserService over UserRepository, a PostgreSQL database
\* (tables users and user_profiles) and the event bus
\* (src/user-service-template.ts).  Every awaited query is one step of a
\* call; the calls interleave on the database.
\* ======================================================================

\* -------------------------------------------------------------- bounds
\* concurrent calls of the service
NumCalls == 2
Calls == 1..NumCalls

\* ------------------------------------------------------------ the data
\* enum UserStatus
ACTIVE == "active"
INACTIVE == "inactive"
SUSPENDED == "suspended"
PENDING_VERIFICATION == "pending_verification"

\* bcrypt.hash(password, 12) and bcrypt.compare(password, hash)
hashPassword(password) == <<"bcrypt", password>>
verifyPassword(password, hash) == hashPassword(password) = hash

\* no row, and the rows the tables hold when the calls start
NoRow == [id |-> null, email |-> null, passwordHash |-> <<>>, status |-> null]
InitialUsers ==
    { [id |-> "u1", email |-> "ann@shop.test", passwordHash |-> hashPassword("pw-ann"),
       status |-> ACTIVE],
      [id |-> "u2", email |-> "bob@shop.test", passwordHash |-> hashPassword("pw-bob"),
       status |-> SUSPENDED] }
InitialProfiles ==
    { [userId |-> "u1", firstName |-> "Ann"], [userId |-> "u2", firstName |-> "Bob"] }

\* id UUID PRIMARY KEY DEFAULT gen_random_uuid(): a fresh id for each insert
NewUserId(c) == "n" \o ToString(c)

\* what the calls are made with
CreateEmails == {"ann@shop.test", "new@shop.test"}
UpdateIds == {"u1", "u0"}
Updates ==
    { [email |-> null, status |-> SUSPENDED, profile |-> null],
      [email |-> "bob@shop.test", status |-> null, profile |-> "Anna"],
      [email |-> null, status |-> null, profile |-> "Anna"] }
AuthEmails == {"ann@shop.test", "bob@shop.test", "nobody@shop.test"}
Passwords == {"pw-ann", "pw-bob"}

NoArg == [email |-> null, password |-> null, id |-> null,
          updates |-> [email |-> null, status |-> null, profile |-> null]]
IdleCall ==
    [pc |-> "idle", op |-> "none", arg |-> NoArg,
     tx |-> "none", writes |-> <<>>, wrote |-> 0, queries |-> <<>>, released |-> 0,
     repo |-> "none", outcome |-> "pending", err |-> "none", row |-> NoRow, token |-> "none"]

\* rec with the fields of new replaced
With(rec, new) == [f \in DOMAIN rec |-> IF f \in DOMAIN new THEN new[f] ELSE rec[f]]
Goto(c, new) == call' = [call EXCEPT ![c] = With(@, new)]

\* ------------------------------------------------------- the database
\* SELECT ... FROM users u ... WHERE u.email = $1 / WHERE u.id = $1, outside
\* any transaction: the committed rows
RowsByEmail(email) == {u \in users : u.email = email}
RowsById(id) == {u \in users : u.id = id}
OneOf(rows) == IF rows = {} THEN NoRow ELSE CHOOSE u \in rows : TRUE

\* a transaction that is open, or failed and not yet rolled back, holds the
\* locks of its writes
Holding(d) == call[d].tx \in {"open", "failed"}
WritesOf(d) == {call[d].writes[i] : i \in 1..Len(call[d].writes)}
ClaimsEmail(d, email) ==
    /\ Holding(d)
    /\ \E w \in WritesOf(d) :
          /\ w.table = "users"
          /\ w.row.email = email
LocksRow(d, table, id) ==
    /\ Holding(d)
    /\ \E w \in WritesOf(d) : w.table = table /\ w.op = "update" /\ w.row.id = id

\* a plausible slip: the table has no unique constraint on email
EmailTakenNever(email, id) == FALSE
\* email VARCHAR(255) UNIQUE NOT NULL: another committed row has the email
EmailTaken(email, id) == \E u \in users : u.email = email /\ u.id # id

\* a write of a transaction, applied to the tables when it commits
RECURSIVE Apply(_, _)
Apply(tables, writes) ==
    IF writes = <<>>
    THEN tables
    ELSE LET w == Head(writes)
             next ==
                 CASE w.table = "users" /\ w.op = "insert" ->
                        [tables EXCEPT !.users = @ \cup {w.row}]
                   [] w.table = "users" /\ w.op = "update" ->
                        [tables EXCEPT !.users =
                            {IF u.id = w.row.id
                             THEN [u EXCEPT !.email = IF w.row.email # null
                                                      THEN w.row.email ELSE @,
                                            !.status = IF w.row.status # null
                                                       THEN w.row.status ELSE @]
                             ELSE u : u \in @}]
                   [] w.table = "user_profiles" /\ w.op = "insert" ->
                        [tables EXCEPT !.profiles = @ \cup {[userId |-> w.row.id,
                                                             firstName |-> w.row.firstName]}]
                   [] w.table = "user_profiles" /\ w.op = "update" ->
                        [tables EXCEPT !.profiles =
                            {IF q.userId = w.row.id
                             THEN [q EXCEPT !.firstName = w.row.firstName]
                             ELSE q : q \in @}]
         IN  Apply(next, Tail(writes))

Query(c, text) == Append(call[c].queries, [q |-> text, on |-> call[c].tx])

UserInit ==
    /\ users = InitialUsers
    /\ profiles = InitialProfiles
    /\ call = [c \in Calls |-> IdleCall]
    /\ bus = <<>>
    /\ SagaParked /\ AppParked /\ StoreParked

\* ------------------------------------------------ UserService.createUser
\* createUser(request): findByEmail(request.email) and the check of its answer
CreateUser(c) ==
    /\ call[c].pc = "idle"
    /\ \E email \in CreateEmails, ok \in BOOLEAN :
          LET arg == [NoArg EXCEPT !.email = email, !.password = "pw-new"]
              started == [op |-> "createUser", arg |-> arg]
          IN  IF ~ok
              THEN Goto(c, started @@ [pc |-> "done", outcome |-> "threw",
                                       err |-> "QueryError"])
              ELSE IF RowsByEmail(email) # {}
              THEN Goto(c, started @@ [pc |-> "done", outcome |-> "threw",
                                       err |-> "User with this email already exists"])
              ELSE Goto(c, started @@ [pc |-> "create.begin"])
    /\ UNCHANGED <<users, profiles, bus>>
    /\ UNCHANGED outsideUser

\* ------------------------------------------------- UserRepository.create
\* const client = await this.db.getClient(); try { await client.query('BEGIN')
CreateBegin(c) ==
    /\ call[c].pc = "create.begin"
    /\ \E ok \in BOOLEAN :
          IF ok
          THEN Goto(c, [pc |-> "create.insertUser", repo |-> "running", tx |-> "open",
                        queries |-> Query(c, "BEGIN")])
          ELSE Goto(c, [pc |-> "create.catch", repo |-> "running", err |-> "QueryError",
                        queries |-> Query(c, "BEGIN")])
    /\ UNCHANGED <<users, profiles, bus>>
    /\ UNCHANGED outsideUser

\* INSERT INTO users (email, password_hash, status, roles): waits while another
\* open transaction holds the email, fails when a committed row has it
InsertUser(c) ==
    /\ call[c].pc = "create.insertUser"
    /\ \A d \in Calls \ {c} : ~ClaimsEmail(d, call[c].arg.email)
    /\ \E ok \in BOOLEAN :
          LET row == [id |-> NewUserId(c), email |-> call[c].arg.email,
                      passwordHash |-> hashPassword(call[c].arg.password),
                      status |-> PENDING_VERIFICATION]
          IN  IF ok /\ ~EmailTaken(row.email, row.id)
              THEN Goto(c, [pc |-> "create.insertProfile", row |-> row,
                            writes |-> Append(call[c].writes,
                                              [table |-> "users", op |-> "insert", row |-> row]),
                            queries |-> Query(c, "INSERT users")])
              ELSE Goto(c, [pc |-> "create.catch", tx |-> "failed",
                            err |-> IF ok THEN "unique_violation" ELSE "QueryError",
                            queries |-> Query(c, "INSERT users")])
    /\ UNCHANGED <<users, profiles, bus>>
    /\ UNCHANGED outsideUser

\* INSERT INTO user_profiles (user_id, first_name, last_name, preferences)
InsertProfile(c) ==
    /\ call[c].pc = "create.insertProfile"
    /\ \E ok \in BOOLEAN :
          IF ok
          THEN Goto(c, [pc |-> "create.commit",
                        writes |-> Append(call[c].writes,
                                          [table |-> "user_profiles", op |-> "insert",
                                           row |-> [id |-> call[c].row.id,
                                                    firstName |-> "New"]]),
                        queries |-> Query(c, "INSERT user_profiles")])
          ELSE Goto(c, [pc |-> "create.catch", tx |-> "failed", err |-> "QueryError",
                        queries |-> Query(c, "INSERT user_profiles")])
    /\ UNCHANGED <<users, profiles, bus>>
    /\ UNCHANGED outsideUser

\* await client.query('COMMIT'); return {...}; finally { client.release() }
CreateCommit(c) ==
    /\ call[c].pc = "create.commit"
    /\ \E ok \in BOOLEAN :
          IF ok
          THEN LET tables == Apply([users |-> users, profiles |-> profiles], call[c].writes)
               IN  /\ users' = tables.users
                   /\ profiles' = tables.profiles
                   /\ Goto(c, [pc |-> "publish", tx |-> "committed",
                               wrote |-> Len(call[c].writes),
                               queries |-> Query(c, "COMMIT"),
                               released |-> call[c].released + 1, repo |-> "returned"])
          ELSE /\ Goto(c, [pc |-> "create.catch", tx |-> "failed", err |-> "QueryError",
                           queries |-> Query(c, "COMMIT")])
               /\ UNCHANGED <<users, profiles>>
    /\ UNCHANGED bus
    /\ UNCHANGED outsideUser

\* catch (error) { await client.query('ROLLBACK'); throw error }
\* finally { client.release() }: the open transaction and its writes are gone;
\* the caller's catch logs and throws again
CatchBlock(c) ==
    /\ Goto(c, [pc |-> "done",
                tx |-> IF Holding(c) THEN "rolledback" ELSE call[c].tx,
                queries |-> Query(c, "ROLLBACK"),
                released |-> call[c].released + 1,
                repo |-> "threw", outcome |-> "threw"])
    /\ UNCHANGED <<users, profiles, bus>>
    /\ UNCHANGED outsideUser

CreateCatch(c) ==
    /\ call[c].pc = "create.catch"
    /\ CatchBlock(c)

\* await this.eventBus.publish({ type: 'user.created', ... }); return
Publish(c) ==
    /\ call[c].pc = "publish"
    /\ \E ok \in BOOLEAN :
          IF ok
          THEN /\ bus' = Append(bus, [type |-> "user.created", userId |-> call[c].row.id,
                                      email |-> call[c].row.email])
               /\ Goto(c, [pc |-> "done", outcome |-> "returned"])
          ELSE /\ Goto(c, [pc |-> "done", outcome |-> "threw", err |-> "PublishError"])
               /\ UNCHANGED bus
    /\ UNCHANGED <<users, profiles>>
    /\ UNCHANGED outsideUser

CreateUserNext ==
    \E c \in Calls :
        \/ CreateUser(c)
        \/ CreateBegin(c)
        \/ InsertUser(c)
        \/ InsertProfile(c)
        \/ CreateCommit(c)
        \/ CreateCatch(c)
        \/ Publish(c)
CreateUserSpec == UserInit /\ [][CreateUserNext]_userVars

\* ------------------------------------------------------------------- C22
\* the createUser calls for an email, and those whose insert was committed
CreateCalls(email) ==
    {c \in Calls : call[c].op = "createUser" /\ call[c].arg.email = email}
Creators(email) == {c \in CreateCalls(email) : call[c].tx = "committed"}
CreatedEvents(email) ==
    {i \in 1..Len(bus) : bus[i].type = "user.created" /\ bus[i].email = email}
LeftBehind(c) ==
    RowsById(NewUserId(c)) # {} \/ \E q \in profiles : q.userId = NewUserId(c)

\* C22: however concurrent createUser calls with the same email interleave,
\* at most one user row with that email exists and at most one call created
\* it, at most one user.created event for the email is published, and every
\* other call throws and leaves neither a user row nor a profile row.
C22_OneUserPerEmail ==
    \A email \in CreateEmails :
        /\ Cardinality(RowsByEmail(email)) <= 1
        /\ Cardinality(Creators(email)) <= 1
        /\ Cardinality(CreatedEvents(email)) <= 1
        /\ \A c \in CreateCalls(email) \ Creators(email) :
              /\ ~LeftBehind(c)
              /\ call[c].pc = "done" => call[c].outcome = "threw"

\* two calls passed findByEmail with the same email; one committed its
\* insert, the other's insert hit the unique constraint and was rolled back
C22_Witness ==
    \E c, d \in Calls :
        /\ c # d
        /\ call[c].arg.email = call[d].arg.email
        /\ c \in Creators(call[c].arg.email)
        /\ call[d].pc = "done"
        /\ call[d].err = "unique_violation"
        /\ call[d].tx = "rolledback"

\* ------------------------------------------------- UserRepository.update
\* if (updates.email || updates.passwordHash || updates.status || updates.roles)
TouchesUsers(updates) == updates.email # null \/ updates.status # null
\* if (updates.profile)
TouchesProfile(updates) == updates.profile # null
\* the statement of update() that runs after the one at position at
AfterUpdate(at, updates) ==
    IF at = "update.begin" /\ TouchesUsers(updates) THEN "update.users"
    ELSE IF at \in {"update.begin", "update.users"} /\ TouchesProfile(updates)
    THEN "update.profiles"
    ELSE "update.commit"

\* update(id, updates) is called
UpdateCall(c) ==
    /\ call[c].pc = "idle"
    /\ \E id \in UpdateIds, updates \in Updates :
          Goto(c, [pc |-> "update.begin", op |-> "update",
                   arg |-> [NoArg EXCEPT !.id = id, !.updates = updates]])
    /\ UNCHANGED <<users, profiles, bus>>
    /\ UNCHANGED outsideUser

\* const client = await this.db.getClient(); try { await client.query('BEGIN')
UpdateBegin(c) ==
    /\ call[c].pc = "update.begin"
    /\ \E ok \in BOOLEAN :
          IF ok
          THEN Goto(c, [pc |-> AfterUpdate("update.begin", call[c].arg.updates),
                        repo |-> "running", tx |-> "open", queries |-> Query(c, "BEGIN")])
          ELSE Goto(c, [pc |-> "update.catch", repo |-> "running", err |-> "QueryError",
                        queries |-> Query(c, "BEGIN")])
    /\ UNCHANGED <<users, profiles, bus>>
    /\ UNCHANGED outsideUser

\* UPDATE users SET ... WHERE id = $n: waits for the row's lock and for an
\* open transaction holding the new email; no row with the id, no write
UpdateUsers(c) ==
    LET id == call[c].arg.id
        updates == call[c].arg.updates
    IN  /\ call[c].pc = "update.users"
        /\ \A d \in Calls \ {c} :
              ~LocksRow(d, "users", id) /\ ~ClaimsEmail(d, updates.email)
        /\ \E ok \in BOOLEAN :
              IF ok /\ RowsById(id) = {}
              THEN Goto(c, [pc |-> AfterUpdate("update.users", updates),
                            queries |-> Query(c, "UPDATE users")])
              ELSE IF ok /\ ~EmailTaken(updates.email, id)
              THEN Goto(c, [pc |-> AfterUpdate("update.users", updates),
                            writes |-> Append(call[c].writes,
                                [table |-> "users", op |-> "update",
                                 row |-> [id |-> id, email |-> updates.email,
                                          status |-> updates.status]]),
                            queries |-> Query(c, "UPDATE users")])
              ELSE Goto(c, [pc |-> "update.catch", tx |-> "failed",
                            err |-> IF ok THEN "unique_violation" ELSE "QueryError",
                            queries |-> Query(c, "UPDATE users")])
        /\ UNCHANGED <<users, profiles, bus>>
        /\ UNCHANGED outsideUser

\* UPDATE user_profiles SET first_name = $1, ... WHERE user_id = $4
UpdateProfiles(c) ==
    LET id == call[c].arg.id
    IN  /\ call[c].pc = "update.profiles"
        /\ \A d \in Calls \ {c} : ~LocksRow(d, "user_profiles", id)
        /\ \E ok \in BOOLEAN :
              IF ok /\ ~\E q \in profiles : q.userId = id
              THEN Goto(c, [pc |-> "update.commit",
                            queries |-> Query(c, "UPDATE user_profiles")])
              ELSE IF ok
              THEN Goto(c, [pc |-> "update.commit",
                            writes |-> Append(call[c].writes,
                                [table |-> "user_profiles", op |-> "update",
                                 row |-> [id |-> id,
                                          firstName |-> call[c].arg.updates.profile]]),
                            queries |-> Query(c, "UPDATE user_profiles")])
              ELSE Goto(c, [pc |-> "update.catch", tx |-> "failed", err |-> "QueryError",
                            queries |-> Query(c, "UPDATE user_profiles")])
        /\ UNCHANGED <<users, profiles, bus>>
        /\ UNCHANGED outsideUser

\* await client.query('COMMIT')
UpdateCommit(c) ==
    /\ call[c].pc = "update.commit"
    /\ \E ok \in BOOLEAN :
          IF ok
          THEN LET tables == Apply([users |-> users, profiles |-> profiles], call[c].writes)
               IN  /\ users' = tables.users
                   /\ profiles' = tables.profiles
                   /\ Goto(c, [pc |-> "update.findById", tx |-> "committed",
                               wrote |-> Len(call[c].writes),
                               queries |-> Query(c, "COMMIT")])
          ELSE /\ Goto(c, [pc |-> "update.catch", tx |-> "failed", err |-> "QueryError",
                           queries |-> Query(c, "COMMIT")])
               /\ UNCHANGED <<users, profiles>>
    /\ UNCHANGED bus
    /\ UNCHANGED outsideUser

\* const updatedUser = await this.findById(id);
\* if (!updatedUser) throw new Error('User not found after update');
\* return updatedUser; finally { client.release() } -- still inside the try
UpdateFindById(c) ==
    /\ call[c].pc = "update.findById"
    /\ \E ok \in BOOLEAN :
          IF ok /\ RowsById(call[c].arg.id) # {}
          THEN Goto(c, [pc |-> "done", row |-> OneOf(RowsById(call[c].arg.id)),
                        released |-> call[c].released + 1,
                        repo |-> "returned", outcome |-> "returned"])
          ELSE Goto(c, [pc |-> "update.catch",
                        err |-> IF ok THEN "User not found after update" ELSE "QueryError"])
    /\ UNCHANGED <<users, profiles, bus>>
    /\ UNCHANGED outsideUser

UpdateCatch(c) ==
    /\ call[c].pc = "update.catch"
    /\ CatchBlock(c)

\* createUser and UserRepository.update calls side by side
RepositoryNext ==
    \E c \in Calls :
        \/ CreateUser(c)
        \/ CreateBegin(c)
        \/ InsertUser(c)
        \/ InsertProfile(c)
        \/ CreateCommit(c)
        \/ CreateCatch(c)
        \/ Publish(c)
        \/ UpdateCall(c)
        \/ UpdateBegin(c)
        \/ UpdateUsers(c)
        \/ UpdateProfiles(c)
        \/ UpdateCommit(c)
        \/ UpdateFindById(c)
        \/ UpdateCatch(c)
RepositorySpec == UserInit /\ [][RepositoryNext]_userVars

\* ------------------------------------------------------------------- C23
\* C23: UserRepository.create and UserRepository.update are all or nothing:
\* when the call throws none of its writes to users or user_profiles is
\* persisted, ROLLBACK is never sent on a transaction that was committed, and
\* the client is released exactly once on every path.
C23_AllOrNothing ==
    \A c \in Calls :
        /\ call[c].repo = "threw" => ~(call[c].tx = "committed" /\ call[c].wrote > 0)
        /\ \A i \in 1..Len(call[c].queries) :
              call[c].queries[i].q = "ROLLBACK" => call[c].queries[i].on # "committed"
        /\ call[c].released <= 1
        /\ call[c].repo \in {"returned", "threw"} => call[c].released = 1

\* ------------------------------------------ UserService.authenticateUser
\* a plausible slip: the status of the account is not looked at
IsActiveAlways(row) == TRUE
\* user.status !== UserStatus.ACTIVE, negated
IsActive(row) == row.status = ACTIVE

\* authenticateUser(email, password): findByEmail(email); if (!user) return null
Authenticate(c) ==
    /\ call[c].pc = "idle"
    /\ \E email \in AuthEmails, password \in Passwords, ok \in BOOLEAN :
          LET arg == [NoArg EXCEPT !.email = email, !.password = password]
              started == [op |-> "authenticateUser", arg |-> arg]
          IN  IF ~ok
              THEN Goto(c, started @@ [pc |-> "done", outcome |-> "threw",
                                       err |-> "QueryError"])
              ELSE IF RowsByEmail(email) = {}
              THEN Goto(c, started @@ [pc |-> "done", outcome |-> "returned null"])
              ELSE Goto(c, started @@ [pc |-> "auth.verify",
                                       row |-> OneOf(RowsByEmail(email))])
    /\ UNCHANGED <<users, profiles, bus>>
    /\ UNCHANGED outsideUser

\* verifyPassword; if (!isValidPassword) return null;
\* if (user.status !== UserStatus.ACTIVE) throw; generateJWTToken(user)
Verify(c) ==
    /\ call[c].pc = "auth.verify"
    /\ \E ok \in BOOLEAN :
          IF ~verifyPassword(call[c].arg.password, call[c].row.passwordHash)
          THEN Goto(c, [pc |-> "done", outcome |-> "returned null"])
          ELSE IF ~IsActive(call[c].row)
          THEN Goto(c, [pc |-> "done", outcome |-> "threw",
                        err |-> "User account is not active"])
          ELSE IF ok
          THEN Goto(c, [pc |-> "auth.publish", token |-> "jwt " \o call[c].row.id])
          ELSE Goto(c, [pc |-> "done", outcome |-> "threw", err |-> "TokenError"])
    /\ UNCHANGED <<users, profiles, bus>>
    /\ UNCHANGED outsideUser

\* await this.eventBus.publish({ type: 'user.authenticated', ... });
\* return { user, token }
PublishAuthenticated(c) ==
    /\ call[c].pc = "auth.publish"
    /\ \E ok \in BOOLEAN :
          IF ok
          THEN /\ bus' = Append(bus, [type |-> "user.authenticated",
                                      userId |-> call[c].row.id,
                                      email |-> call[c].row.email])
               /\ Goto(c, [pc |-> "done", outcome |-> "returned"])
          ELSE /\ Goto(c, [pc |-> "done", outcome |-> "threw", err |-> "PublishError",
                           token |-> "none"])
               /\ UNCHANGED bus
    /\ UNCHANGED <<users, profiles>>
    /\ UNCHANGED outsideUser

AuthNext ==
    \E c \in Calls :
        \/ Authenticate(c)
        \/ Verify(c)
        \/ PublishAuthenticated(c)
AuthSpec == UserInit /\ [][AuthNext]_userVars

\* ------------------------------------------------------------------- C24
\* what the call was made with, against the rows of the table
Known(c) == RowsByEmail(call[c].arg.email) # {}
PasswordOk(c) ==
    \E u \in RowsByEmail(call[c].arg.email) :
        verifyPassword(call[c].arg.password, u.passwordHash)
StatusActive(c) == \E u \in RowsByEmail(call[c].arg.email) : u.status = ACTIVE
Authenticated(c) ==
    {i \in 1..Len(bus) : bus[i].type = "user.authenticated"
                            /\ bus[i].email = call[c].arg.email}
Answered(c) == call[c].pc = "done" /\ call[c].err # "QueryError"

NumAppends == 2
Appends == 1..NumAppends

\* what the calls are made with: the stream, the events (each call brings
\* its own, named by the call and their place) and the expected version
Streams == {"order-1"}
BatchSizes == {1, 2}
ExpectedVersions == {0, 1}
EventsOf(c, n) == [k \in 1..n |-> <<c, k>>]

\* the builds of `const currentVersion ...; currentVersion++`: the assignment
\* throws a TypeError where const is kept, and increments where const was
\* compiled to var
Builds == {"const", "var"}

IdleAppend ==
    [pc |-> "idle", streamId |-> null, events |-> <<>>, expectedVersion |-> 0,
     currentVersion |-> 0, next |-> 1, tx |-> "none", inserted |-> <<>>,
     version |-> <<>>, sent |-> 0, outcome |-> "pending", err |-> "none"]

Move(c, new) == appending' = [appending EXCEPT ![c] = With(@, new)]

StoreInit ==
    /\ streams = [s \in Streams |-> 0]
    /\ stored = {}
    /\ appending = [c \in Appends |-> IdleAppend]
    /\ published = <<>>
    /\ build \in Builds
    /\ SagaParked /\ AppParked /\ UserParked

\* this.getStreamVersion(streamId, trx): the committed version of the stream
getStreamVersion(streamId) == streams[streamId]

\* appendEvents(streamId, events, expectedVersion): the transaction begins,
\* const currentVersion = await this.getStreamVersion(streamId, trx);
\* if (currentVersion !== expectedVersion) throw new ConcurrencyError(...)
AppendEvents(c) ==
    /\ appending[c].pc = "idle"
    /\ \E streamId \in Streams, n \in BatchSizes, expectedVersion \in ExpectedVersions :
          LET started == [streamId |-> streamId, events |-> EventsOf(c, n),
                          expectedVersion |-> expectedVersion, tx |-> "open",
                          currentVersion |-> getStreamVersion(streamId)]
          IN  IF getStreamVersion(streamId) # expectedVersion
              THEN Move(c, started @@ [pc |-> "rollback", err |-> "ConcurrencyError"])
              ELSE Move(c, started @@ [pc |-> "insert"])
    /\ UNCHANGED <<streams, stored, published, build>>
    /\ UNCHANGED outsideStore

\* the statement after the insert of the event at place k
AfterInsert(c, k) == IF k < Len(appending[c].events) THEN "insert" ELSE "update"

\* await trx('events').insert({ ..., event_version: currentVersion + 1, ... });
\* currentVersion++;
AppendInsert(c) ==
    LET a == appending[c]
        row == [stream_id |-> a.streamId, event_version |-> a.currentVersion + 1,
                event |-> a.events[a.next]]
    IN  /\ a.pc = "insert"
        /\ IF build = "const"
           THEN Move(c, [pc |-> "rollback", err |-> "TypeError",
                         inserted |-> Append(a.inserted, row)])
           ELSE Move(c, [pc |-> AfterInsert(c, a.next),
                         inserted |-> Append(a.inserted, row),
                         currentVersion |-> a.currentVersion + 1, next |-> a.next + 1])
        /\ UNCHANGED <<streams, stored, published, build>>
        /\ UNCHANGED outsideStore

\* await trx('streams').update({ version: currentVersion }).where({ id: streamId }):
\* waits while another open transaction has updated the row
AppendUpdate(c) ==
    /\ appending[c].pc = "update"
    /\ \A d \in Appends \ {c} :
          ~(/\ appending[d].tx = "open"
            /\ appending[d].streamId = appending[c].streamId
            /\ appending[d].version # <<>>)
    /\ Move(c, [pc |-> "commit", version |-> <<appending[c].currentVersion>>])
    /\ UNCHANGED <<streams, stored, published, build>>
    /\ UNCHANGED outsideStore

\* the callback returned: connection.transaction commits
AppendCommit(c) ==
    /\ appending[c].pc = "commit"
    /\ stored' = stored \cup {appending[c].inserted[i] : i \in 1..Len(appending[c].inserted)}
    /\ streams' = [streams EXCEPT ![appending[c].streamId] = appending[c].version[1]]
    /\ Move(c, [pc |-> "publish", tx |-> "committed"])
    /\ UNCHANGED <<published, build>>
    /\ UNCHANGED outsideStore

\* the callback threw: connection.transaction rolls back and appendEvents
\* throws the error
AppendRollback(c) ==
    /\ appending[c].pc = "rollback"
    /\ Move(c, [pc |-> "done", tx |-> "rolledback", inserted |-> <<>>, version |-> <<>>,
                outcome |-> "threw"])
    /\ UNCHANGED <<streams, stored, published, build>>
    /\ UNCHANGED outsideStore

\* for (const event of events) { await this.eventBus.publish(event); }
AppendPublish(c) ==
    LET a == appending[c]
    IN  /\ a.pc = "publish"
        /\ IF a.sent < Len(a.events)
           THEN /\ published' = Append(published, a.events[a.sent + 1])
                /\ Move(c, [sent |-> a.sent + 1])
           ELSE /\ Move(c, [pc |-> "done", outcome |-> "returned"])
                /\ UNCHANGED published
        /\ UNCHANGED <<streams, stored, build>>
        /\ UNCHANGED outsideStore

StoreNext ==
    \E c \in Appends :
        \/ AppendEvents(c)
        \/ AppendInsert(c)
        \/ AppendUpdate(c)
        \/ AppendCommit(c)
        \/ AppendRollback(c)
        \/ AppendPublish(c)
StoreSpec == StoreInit /\ [][StoreNext]_storeVars

\* ------------------------------------------------------------------- C25
RowsOf(streamId) == {row \in stored : row.stream_id = streamId}
StoredBy(c) == {row \in stored : row.event[1] = c}
PublishedBy(c) == {i \in 1..Len(published) : published[i][1] = c}

====
